---------------------------- MODULE Spec2Model ----------------------------
(***************************************************************************)
(* A model of MatthewgAI (src/mille/matthewgai.py): the card-count         *)
(* tracker, the discard-suspicion history, the per-turn memoization cache, *)
(* the move and card valuation, the trip-completion forecaster and the     *)
(* Monte Carlo mileage simulation.                                         *)
(*                                                                         *)
(* Numbers that the program computes with true division are modelled as    *)
(* exact rationals <<numerator, denominator>> in lowest terms.             *)
(***************************************************************************)
EXTENDS Integers, Sequences, FiniteSets, TLC

VARIABLES
  cardsUnseen,      \* self.cardsUnseen: card -> count
  numCardsUnseen,   \* self.numCardsUnseen
  interestingRemedyDiscardsByPlayer, \* player -> remedy -> count
  turnCache,        \* self.turnCache: function name -> (arguments -> value)
  gameState,        \* self.gameState (NONE outside of makeMove)
  history,          \* log of the observation calls received so far
  snapshotIn,       \* the GameState object as the caller built it
  snapshot,         \* the same object after the last call that was given it
  returned,         \* what the last call returned
  moveValues,       \* the moveValues dict of the last makeMove
  mcRuns,           \* how often the last call ran the Monte Carlo body
  lastCall,         \* the method called last on the object
  queried           \* what the last forecast query returned

vars == <<cardsUnseen, numCardsUnseen, interestingRemedyDiscardsByPlayer,
          turnCache, gameState, history, snapshotIn, snapshot, returned,
          moveValues, mcRuns, lastCall, queried>>

NONE == "NONE"

-----------------------------------------------------------------------------
(* The card catalog (mille.cards), the deck (mille.deck), mille.move and   *)
(* mille.game.                                                             *)

MILEAGE == "MILEAGE"
REMEDY == "REMEDY"
SAFETY == "SAFETY"
ATTACK == "ATTACK"

MILEAGE_25 == "MILEAGE_25"
MILEAGE_50 == "MILEAGE_50"
MILEAGE_75 == "MILEAGE_75"
MILEAGE_100 == "MILEAGE_100"
MILEAGE_200 == "MILEAGE_200"
ATTACK_ACCIDENT == "ATTACK_ACCIDENT"
ATTACK_OUT_OF_GAS == "ATTACK_OUT_OF_GAS"
ATTACK_FLAT_TIRE == "ATTACK_FLAT_TIRE"
ATTACK_SPEED_LIMIT == "ATTACK_SPEED_LIMIT"
ATTACK_STOP == "ATTACK_STOP"
REMEDY_REPAIRS == "REMEDY_REPAIRS"
REMEDY_GASOLINE == "REMEDY_GASOLINE"
REMEDY_SPARE_TIRE == "REMEDY_SPARE_TIRE"
REMEDY_END_OF_LIMIT == "REMEDY_END_OF_LIMIT"
REMEDY_GO == "REMEDY_GO"
SAFETY_DRIVING_ACE == "SAFETY_DRIVING_ACE"
SAFETY_EXTRA_TANK == "SAFETY_EXTRA_TANK"
SAFETY_PUNCTURE_PROOF == "SAFETY_PUNCTURE_PROOF"
SAFETY_RIGHT_OF_WAY == "SAFETY_RIGHT_OF_WAY"

\* Cards.MILEAGE_CARDS, Cards.ATTACKS, Cards.REMEDIES, Cards.SAFETIES, in
\* catalog order.
MILEAGE_CARDS ==
  <<MILEAGE_25, MILEAGE_50, MILEAGE_75, MILEAGE_100, MILEAGE_200>>
ATTACKS ==
  <<ATTACK_ACCIDENT, ATTACK_OUT_OF_GAS, ATTACK_FLAT_TIRE,
    ATTACK_SPEED_LIMIT, ATTACK_STOP>>
REMEDIES ==
  <<REMEDY_REPAIRS, REMEDY_GASOLINE, REMEDY_SPARE_TIRE,
    REMEDY_END_OF_LIMIT, REMEDY_GO>>
SAFETIES ==
  <<SAFETY_DRIVING_ACE, SAFETY_EXTRA_TANK, SAFETY_PUNCTURE_PROOF,
    SAFETY_RIGHT_OF_WAY>>

SeqToSet(s) == {s[i] : i \in DOMAIN s}

AllCards ==
  SeqToSet(MILEAGE_CARDS) \cup SeqToSet(ATTACKS) \cup SeqToSet(REMEDIES)
    \cup SeqToSet(SAFETIES)

cardToType(card) ==
  IF card \in SeqToSet(MILEAGE_CARDS) THEN MILEAGE
  ELSE IF card \in SeqToSet(ATTACKS) THEN ATTACK
  ELSE IF card \in SeqToSet(REMEDIES) THEN REMEDY
  ELSE SAFETY

cardToMileage(card) ==
  CASE card = MILEAGE_25 -> 25
    [] card = MILEAGE_50 -> 50
    [] card = MILEAGE_75 -> 75
    [] card = MILEAGE_100 -> 100
    [] card = MILEAGE_200 -> 200

attackToRemedy(attack) ==
  CASE attack = ATTACK_ACCIDENT -> REMEDY_REPAIRS
    [] attack = ATTACK_OUT_OF_GAS -> REMEDY_GASOLINE
    [] attack = ATTACK_FLAT_TIRE -> REMEDY_SPARE_TIRE
    [] attack = ATTACK_SPEED_LIMIT -> REMEDY_END_OF_LIMIT
    [] attack = ATTACK_STOP -> REMEDY_GO

attackToSafety(attack) ==
  CASE attack = ATTACK_ACCIDENT -> SAFETY_DRIVING_ACE
    [] attack = ATTACK_OUT_OF_GAS -> SAFETY_EXTRA_TANK
    [] attack = ATTACK_FLAT_TIRE -> SAFETY_PUNCTURE_PROOF
    [] attack = ATTACK_SPEED_LIMIT -> SAFETY_RIGHT_OF_WAY
    [] attack = ATTACK_STOP -> SAFETY_RIGHT_OF_WAY

remedyToAttack(remedy) ==
  CASE remedy = REMEDY_REPAIRS -> ATTACK_ACCIDENT
    [] remedy = REMEDY_GASOLINE -> ATTACK_OUT_OF_GAS
    [] remedy = REMEDY_SPARE_TIRE -> ATTACK_FLAT_TIRE
    [] remedy = REMEDY_END_OF_LIMIT -> ATTACK_SPEED_LIMIT
    [] remedy = REMEDY_GO -> ATTACK_STOP

remedyToSafety(remedy) == attackToSafety(remedyToAttack(remedy))

\* Deck.composition: the number of copies of each card in a full deck.
DeckComposition ==
  [card \in AllCards |->
     CASE card \in {MILEAGE_25, MILEAGE_50, MILEAGE_75} -> 10
       [] card = MILEAGE_100 -> 12
       [] card = MILEAGE_200 -> 4
       [] card \in {ATTACK_ACCIDENT, ATTACK_OUT_OF_GAS, ATTACK_FLAT_TIRE} -> 3
       [] card = ATTACK_SPEED_LIMIT -> 4
       [] card = ATTACK_STOP -> 5
       [] card = REMEDY_GO -> 14
       [] card \in SeqToSet(REMEDIES) \ {REMEDY_GO} -> 6
       [] OTHER -> 1]

PLAY == "PLAY"
DISCARD == "DISCARD"

\* Game.pointsToWin
pointsToWin == 5000

-----------------------------------------------------------------------------
(* Constants (lines 33-40), as exact rationals.                            *)

REMEDY_DISCARD_BOOST == <<3, 2>>
DISCARD_MOVE_VALUE_PENALTY == <<1, 1000>>
SAFETY_HORDE_FACTOR == <<3, 5>>
ATTACK_QUALITY_MOD_STOP == <<1, 4>>
ATTACK_QUALITY_MOD_LIMIT == <<1, 4>>
DUPE_PENALTY_FACTOR == 3

-----------------------------------------------------------------------------
(* True division (from __future__ import division) on exact rationals.     *)

Abs(n) == IF n < 0 THEN -n ELSE n

RECURSIVE GCD(_, _)
GCD(a, b) == IF b = 0 THEN a ELSE GCD(b, a % b)

\* n / d in lowest terms with a positive denominator (d # 0).
Rat(n, d) ==
  LET g == GCD(Abs(n), Abs(d))
      s == IF d < 0 THEN -1 ELSE 1
  IN <<(s * n) \div g, (s * d) \div g>>

RInt(n) == <<n, 1>>
RZero == <<0, 1>>
ROne == <<1, 1>>
RAdd(a, b) ==
  LET g == GCD(a[2], b[2])
  IN Rat(a[1] * (b[2] \div g) + b[1] * (a[2] \div g), (a[2] \div g) * b[2])
RSub(a, b) == RAdd(a, <<-b[1], b[2]>>)
RMul(a, b) ==
  LET x == Rat(a[1], b[2])
      y == Rat(b[1], a[2])
  IN <<x[1] * y[1], x[2] * y[2]>>
RDiv(a, b) == RMul(a, Rat(b[2], b[1]))
RLt(a, b) ==
  LET g == GCD(a[2], b[2])
  IN a[1] * (b[2] \div g) < b[1] * (a[2] \div g)
RLe(a, b) == ~RLt(b, a)
RMin(a, b) == IF RLe(a, b) THEN a ELSE b
\* math.ceil
RCeil(a) == <<-((-a[1]) \div a[2]), 1>>

RECURSIVE SumOver(_, _)
SumOver(f, S) ==
  IF S = {} THEN 0
  ELSE LET x == CHOOSE y \in S : TRUE IN f[x] + SumOver(f, S \ {x})

Max2(a, b) == IF a >= b THEN a ELSE b

-----------------------------------------------------------------------------
(* Bounds of the model.                                                    *)

\* The longest log of observation calls explored.
MaxHist == 4

\* The players that observation calls are reported for.
PlayerNumbers == {0, 1}

\* The cards that observation calls report.
ObservedCards == {SAFETY_RIGHT_OF_WAY, REMEDY_GO, REMEDY_GASOLINE}

-----------------------------------------------------------------------------
(* The tracker: resetCardCount, cardSeen, playerPlayed, cardDrawn,         *)
(* handEnded.                                                              *)

\* The names of the methods decorated with cacheComputationForTurn.
CachedNames ==
  {"chanceOpponentHasProtection", "moveValue", "mileageCardValue",
   "cardValue", "valueOfPoints", "chanceTeamWillCompleteTrip",
   "chanceTeamWillWin", "expectedTurnPoints", "percentOfCardsRemaining",
   "monteCarloMileageSimulation", "maxTripPctDone", "expectedTurnsLeft",
   "deckExhaustionTurnsLeft", "useMonteCarloSimulation"}

\* resetTurnCache: self.turnCache = {}.  The dict is kept as one map per
\* method name, from the tuple of arguments to the memoized value.
EmptyCache == [fn \in CachedNames |-> <<>>]

\* resetCardCount: the three fields it assigns.
ResetCardsUnseen == DeckComposition
ResetNumCardsUnseen == SumOver(DeckComposition, AllCards)
ResetDiscards ==
  [p \in PlayerNumbers |-> [r \in SeqToSet(REMEDIES) |-> 0]]

\* A cardSeen that forgets the aggregate count.
CardSeenNumForgotten(n) == n

\* cardSeen(card), lines 99-100: both counters go down by one,
\* unconditionally.
CardSeenUnseen(cu, card) == [cu EXCEPT ![card] = @ - 1]
CardSeenNum(n) == n - 1

Event(op, player, type, card) ==
  [op |-> op, player |-> player, type |-> type, card |-> card]

cardDrawn(card) ==
  /\ Len(history) < MaxHist
  /\ cardsUnseen' = CardSeenUnseen(cardsUnseen, card)
  /\ numCardsUnseen' = CardSeenNum(numCardsUnseen)
  /\ history' = Append(history, Event("cardDrawn", -1, NONE, card))
  /\ UNCHANGED <<interestingRemedyDiscardsByPlayer, turnCache, gameState,
                 snapshotIn, snapshot, returned, moveValues, mcRuns, queried>>
  /\ lastCall' = "observation"

\* A playerPlayed in which playing a remedy does not clear the suspicion.
PlayerPlayedDiscardsNoReset(d, player, move) ==
  IF cardToType(move.card) = REMEDY /\ move.card # REMEDY_GO
       /\ move.type = DISCARD
  THEN [d EXCEPT ![player][move.card] = @ + 1]
  ELSE d

\* The discard-suspicion update of playerPlayed (lines 114-118).
PlayerPlayedDiscards(d, player, move) ==
  IF cardToType(move.card) = REMEDY /\ move.card # REMEDY_GO
  THEN IF move.type = DISCARD
       THEN [d EXCEPT ![player][move.card] = @ + 1]
       ELSE [d EXCEPT ![player][move.card] = 0]
  ELSE d

playerPlayed(player, move) ==
  /\ Len(history) < MaxHist
  /\ cardsUnseen' = CardSeenUnseen(cardsUnseen, move.card)
  /\ numCardsUnseen' = CardSeenNum(numCardsUnseen)
  /\ interestingRemedyDiscardsByPlayer' =
       PlayerPlayedDiscards(interestingRemedyDiscardsByPlayer, player, move)
  /\ history' =
       Append(history, Event("playerPlayed", player, move.type, move.card))
  /\ UNCHANGED <<turnCache, gameState, snapshotIn, snapshot, returned,
                 moveValues, mcRuns, queried>>
  /\ lastCall' = "observation"

handEnded ==
  /\ Len(history) < MaxHist
  /\ cardsUnseen' = ResetCardsUnseen
  /\ numCardsUnseen' = ResetNumCardsUnseen
  /\ interestingRemedyDiscardsByPlayer' = ResetDiscards
  /\ history' = Append(history, Event("handEnded", -1, NONE, NONE))
  /\ UNCHANGED <<turnCache, gameState, snapshotIn, snapshot, returned,
                 moveValues, mcRuns, queried>>
  /\ lastCall' = "observation"

Move(type, card, target) == [type |-> type, card |-> card, target |-> target]

-----------------------------------------------------------------------------
(* The per-turn memoization and the methods it decorates.  A method takes  *)
(* the object's state st (its fields, plus the orders random.shuffle will  *)
(* leave the deck in, one per call) and yields its return value and the    *)
(* state it leaves, since a call memoizes its result in self.turnCache.    *)

Self(cache, gs, cu, ncu, discards, rnd) ==
  [turnCache |-> cache, mcRuns |-> 0, gs |-> gs, cardsUnseen |-> cu,
   numCardsUnseen |-> ncu, discards |-> discards, rnd |-> rnd]

Ret(v, st) == [ret |-> v, st |-> st]

\* The value x under the name the operator F gives it.
Bind(x, F(_)) == F(x)

\* A lookup that misses the signature of a call without arguments.
CacheHitArgsOnly(name, args, st) ==
  args # <<>> /\ args \in DOMAIN st.turnCache[name]

\* Line 56: sig in ai.turnCache.  The signature is the method's name and
\* the repr of each argument (line 55).
CacheHit(name, args, st) == args \in DOMAIN st.turnCache[name]

\* _callOncePerTurn, lines 53-61.  computed is what fn returns when called on
\* st (line 59); a hit does not look at it.
cacheComputationForTurn(name, args, computed, st) ==
  IF CacheHit(name, args, st)
  THEN Ret(st.turnCache[name][args], st)
  ELSE Bind(computed, LAMBDA r :
         Ret(r.ret, [r.st EXCEPT !.turnCache[name] = (args :> r.ret) @@ @]))

RECURSIVE UnseenCount(_, _, _)
UnseenCount(cu, cards, i) ==
  IF i > Len(cards) THEN 0 ELSE cu[cards[i]] + UnseenCount(cu, cards, i + 1)

\* percentOfCardsRemaining(*cards), lines 500-504.
percentOfCardsRemainingBody(cards, st) ==
  Bind(UnseenCount(st.cardsUnseen, cards, 1), LAMBDA cardCount :
    Ret(Rat(cardCount, Max2(Max2(st.numCardsUnseen, cardCount), 1)), st))

percentOfCardsRemaining(cards, st) ==
  cacheComputationForTurn("percentOfCardsRemaining", cards,
                          percentOfCardsRemainingBody(cards, st), st)

\* valueOfPoints(points, team), lines 376-384.
valueOfPointsBody(points, team, st) ==
  Bind(Max2(pointsToWin - team.totalScore, 0), LAMBDA gamePointsRemaining :
    Ret(IF gamePointsRemaining > 0
        THEN RMin(ROne, Rat(points, gamePointsRemaining))
        ELSE <<1, 2>>, st))

valueOfPoints(points, team, st) ==
  cacheComputationForTurn("valueOfPoints", <<points, team.number>>,
                          valueOfPointsBody(points, team, st), st)

\* expectedTurnPoints(team), lines 495-497.
expectedTurnPointsBody(team, st) == Ret(75, st)

expectedTurnPoints(team, st) ==
  cacheComputationForTurn("expectedTurnPoints", <<team.number>>,
                          expectedTurnPointsBody(team, st), st)

\* [self.gameState.us] + self.gameState.opponents
AllTeams(gs) == <<gs.us>> \o gs.opponents

\* GameState.teamNumberToTeam
teamNumberToTeam(gs, n) ==
  LET ts == AllTeams(gs)
  IN ts[CHOOSE i \in DOMAIN ts : ts[i].number = n]

RECURSIVE MaxMileage(_, _)
MaxMileage(teams, i) ==
  IF i = Len(teams) THEN teams[i].mileage
  ELSE Max2(teams[i].mileage, MaxMileage(teams, i + 1))

\* maxTripPctDone(), lines 596-601.
maxTripPctDoneBody(st) == Ret(Rat(MaxMileage(AllTeams(st.gs), 1), 1000), st)

maxTripPctDone(st) ==
  cacheComputationForTurn("maxTripPctDone", <<>>,
                          maxTripPctDoneBody(st), st)

RECURSIVE PlayerCount(_, _)
PlayerCount(teams, i) ==
  IF i > Len(teams) THEN 0
  ELSE Len(teams[i].playerNumbers) + PlayerCount(teams, i + 1)

\* deckExhaustionTurnsLeft(), lines 619-625.
deckExhaustionTurnsLeftBody(st) ==
  Ret(RCeil(Rat(st.gs.cardsLeft, PlayerCount(AllTeams(st.gs), 1))), st)

deckExhaustionTurnsLeft(st) ==
  cacheComputationForTurn("deckExhaustionTurnsLeft", <<>>,
                          deckExhaustionTurnsLeftBody(st), st)

\* useMonteCarloSimulation(), lines 628-631: `or` does not evaluate its
\* second operand when the first is true.
useMonteCarloSimulationBody(st) ==
  Bind(maxTripPctDone(st), LAMBDA a :
    IF RLt(<<3, 4>>, a.ret) THEN Ret(TRUE, a.st)
    ELSE Bind(deckExhaustionTurnsLeft(a.st), LAMBDA b :
           Ret(RLt(b.ret, RInt(10)), b.st)))

useMonteCarloSimulation(st) ==
  cacheComputationForTurn("useMonteCarloSimulation", <<>>,
                          useMonteCarloSimulationBody(st), st)

-----------------------------------------------------------------------------
(* monteCarloMileageSimulation, lines 507-593.                             *)

\* The playouts of one simulation (the source runs xrange(100) of them).
NumPlayouts == 2

TeamNumbers(gs) == {AllTeams(gs)[i].number : i \in DOMAIN AllTeams(gs)}

\* Lines 512-517 and 524: the dicts a playout starts from, over a deck that
\* has been built from cardsUnseen and shuffled.  No player holds -1, which
\* stands for tripCompletedBy = None; the empty deck stands for None too
\* (both are false where the loop tests the deck).  dealt counts the
\* cards popped from the deck (line 547) and completedAt keeps the count
\* at which tripCompletedBy was first set (line 570); -1: not yet.
PlayoutStart(gs, deck) ==
  [deck |-> deck, dealt |-> 0, completedAt |-> -1,
   needMileage |-> [n \in TeamNumbers(gs) |-> teamNumberToTeam(gs, n).mileage],
   moving |-> [n \in TeamNumbers(gs) |-> teamNumberToTeam(gs, n).moving],
   needRemedy |->
     [n \in TeamNumbers(gs) |-> teamNumberToTeam(gs, n).needRemedy],
   twoHundredsPlayed |->
     [n \in TeamNumbers(gs) |-> teamNumberToTeam(gs, n).twoHundredsPlayed],
   tripCompletedBy |-> -1,
   turnsElapsed |-> 1]

\* Lines 549-557: a card that is no mileage card, on the team's locals.
ApplyOtherCard(loc, card, needRemedyOfTeam) ==
  IF card = REMEDY_GO
  THEN [loc EXCEPT !.moving = TRUE,
                   !.remedy = IF @ = REMEDY_GO THEN NONE ELSE @]
  ELSE IF loc.remedy # NONE
            /\ \/ cardToType(card) = SAFETY /\ loc.safety = card
               \/ cardToType(card) = REMEDY /\ needRemedyOfTeam = card
       THEN [loc EXCEPT !.remedy = NONE]
       ELSE loc

\* Lines 540-571: the loop over the players of the team whose turn it is,
\* from its k-th player on; p is the playout, loc the team's locals.
RECURSIVE PlayerLoop(_, _, _, _)
PlayerLoop(p, loc, team, k) ==
  IF k > Len(team.playerNumbers) THEN [p |-> p, loc |-> loc]
  ELSE
    LET playerNum == team.playerNumbers[k]
    IN IF p.tripCompletedBy = playerNum
       THEN [p |-> [p EXCEPT !.deck = <<>>], loc |-> loc]
       ELSE IF p.deck = <<>> THEN [p |-> p, loc |-> loc]
       ELSE
         LET card == p.deck[Len(p.deck)]
             p1 == [p EXCEPT !.deck = SubSeq(@, 1, Len(@) - 1),
                             !.dealt = @ + 1]
             mileage == cardToMileage(card)
             skipped ==
               /\ cardToType(card) = MILEAGE
               /\ \/ mileage = 200 /\ loc.twoH >= 2
                  \/ mileage > loc.need
             loc1 ==
               IF cardToType(card) # MILEAGE
               THEN ApplyOtherCard(loc, card, p.needRemedy[team.number])
               ELSE [loc EXCEPT !.twoH = IF mileage = 200 THEN @ + 1 ELSE @,
                                !.need = @ - mileage]
         IN IF skipped THEN PlayerLoop(p1, loc, team, k + 1)
            ELSE IF loc1.need = 0 /\ loc1.moving /\ loc1.remedy = NONE
            THEN [p |-> [p1 EXCEPT !.tripCompletedBy = playerNum,
                                   !.completedAt =
                                     IF @ = -1 THEN p1.dealt ELSE @],
                  loc |-> loc1]
            ELSE PlayerLoop(p1, loc1, team, k + 1)

\* Lines 530-538: the locals of the team whose turn it is.
TeamLocals(p, n) ==
  [need |-> p.needMileage[n], remedy |-> p.needRemedy[n],
   moving |-> p.moving[n], twoH |-> p.twoHundredsPlayed[n],
   safety |-> IF p.needRemedy[n] # NONE
              THEN remedyToSafety(p.needRemedy[n]) ELSE NONE]

\* Lines 530-576: one team's turn.
TeamTurn(p, team) ==
  Bind(PlayerLoop(p, TeamLocals(p, team.number), team, 1), LAMBDA r :
    [r.p EXCEPT !.needMileage[team.number] = r.loc.need,
                !.needRemedy[team.number] = r.loc.remedy,
                !.moving[team.number] = r.loc.moving,
                !.twoHundredsPlayed[team.number] = r.loc.twoH])

\* Lines 526-528: the loop over the teams, from the t-th on.
RECURSIVE TeamLoop(_, _, _)
TeamLoop(p, teams, t) ==
  IF t > Len(teams) \/ p.deck = <<>> THEN p
  ELSE TeamLoop(TeamTurn(p, teams[t]), teams, t + 1)

\* Lines 525-578: while deck.
RECURSIVE WhileDeck(_, _)
WhileDeck(p, teams) ==
  IF p.deck = <<>> THEN p
  ELSE WhileDeck([TeamLoop(p, teams, 1) EXCEPT !.turnsElapsed = @ + 1],
                 teams)

\* Lines 580-592: the result of a playout.
PlayoutResult(gs, p) ==
  <<p.turnsElapsed>> \o
  [j \in 1..(Len(gs.opponents) + 1) |->
     LET i == j - 1
         team == teamNumberToTeam(gs, i)
     IN IF p.needRemedy[i] # NONE \/ ~p.moving[i]
        THEN 1000 - team.mileage
        ELSE p.needMileage[i]]

Playout(gs, deck) ==
  PlayoutResult(gs, WhileDeck(PlayoutStart(gs, deck), AllTeams(gs)))

\* Lines 510-593: each playout shuffles the unseen cards anew, which takes
\* the next order from st.rnd.
monteCarloMileageSimulationBody(st) ==
  Ret([k \in 1..NumPlayouts |-> Playout(st.gs, st.rnd[k])],
      [st EXCEPT !.mcRuns = @ + 1,
                 !.rnd = SubSeq(@, NumPlayouts + 1, Len(@))])

monteCarloMileageSimulation(st) ==
  cacheComputationForTurn("monteCarloMileageSimulation", <<>>,
                          monteCarloMileageSimulationBody(st), st)

RECURSIVE SumColumn(_, _, _)
SumColumn(results, col, k) ==
  IF k > Len(results) THEN 0
  ELSE results[k][col] + SumColumn(results, col, k + 1)

\* expectedTurnsLeft(), lines 604-616.
expectedTurnsLeftBody(st) ==
  Bind(maxTripPctDone(st), LAMBDA a :
    Bind(useMonteCarloSimulation(a.st), LAMBDA b :
      IF b.ret THEN deckExhaustionTurnsLeft(b.st)
      ELSE Bind(monteCarloMileageSimulation(b.st), LAMBDA m :
             Ret(RCeil(Rat(SumColumn(m.ret, 1, 1), Len(m.ret))), m.st))))

expectedTurnsLeft(st) ==
  cacheComputationForTurn("expectedTurnsLeft", <<>>,
                          expectedTurnsLeftBody(st), st)

-----------------------------------------------------------------------------
(* The odds: chanceTeamWillWin, chanceTeamWillCompleteTrip,                *)
(* chanceOpponentHasProtection.                                            *)

RECURSIVE MaxScore(_, _)
MaxScore(teams, i) ==
  IF i = Len(teams) THEN teams[i].totalScore
  ELSE Max2(teams[i].totalScore, MaxScore(teams, i + 1))

\* Lines 487-488.
AggregateWinChance(score, maxScore, prior, gamePercentDone) ==
  RDiv(RAdd(RMul(Rat(score, maxScore), gamePercentDone),
            RMul(prior, RSub(ROne, gamePercentDone))),
       RInt(2))

\* chanceTeamWillWin(team), lines 456-492.
chanceTeamWillWinBody(team, st) ==
  Bind(MaxScore(AllTeams(st.gs), 1), LAMBDA maxScore :
    Ret(IF maxScore = 0 THEN Rat(1, Len(st.gs.opponents) + 1)
        ELSE AggregateWinChance(team.totalScore, maxScore,
                                Rat(1, Len(st.gs.opponents) + 1),
                                Rat(maxScore, pointsToWin)),
        st))

chanceTeamWillWin(team, st) ==
  cacheComputationForTurn("chanceTeamWillWin", <<team.number>>,
                          chanceTeamWillWinBody(team, st), st)

\* Lines 390-397: the share of the playouts in which the team's entry is 0.
MonteCarloCompletion(team, st) ==
  Bind(monteCarloMileageSimulation(st), LAMBDA m :
    Ret(Rat(Cardinality({k \in DOMAIN m.ret : m.ret[k][team.number + 2] = 0}),
            Len(m.ret)),
        m.st))

\* The mileage cards of at most need, highest first (lines 423-426).
ValidMileageCards(need) ==
  SelectSeq(<<MILEAGE_200, MILEAGE_100, MILEAGE_75, MILEAGE_50, MILEAGE_25>>,
            LAMBDA c : cardToMileage(c) <= need)

RECURSIVE UnseenMileage(_, _, _)
UnseenMileage(cu, cards, i) ==
  IF i > Len(cards) THEN 0
  ELSE cardToMileage(cards[i]) * cu[cards[i]] + UnseenMileage(cu, cards, i + 1)

\* Lines 406-409.
GoCoeff(team, teamMovesLeft, st) ==
  IF team.moving THEN Ret(ROne, st)
  ELSE Bind(percentOfCardsRemaining(<<REMEDY_GO>>, st), LAMBDA q :
         Ret(RMin(ROne, RMul(q.ret, teamMovesLeft)), q.st))

\* Lines 411-416.
RemedyCoeff(team, teamMovesLeft, st) ==
  IF team.needRemedy # NONE /\ team.needRemedy # REMEDY_GO
  THEN Bind(percentOfCardsRemaining(
              <<team.needRemedy, remedyToSafety(team.needRemedy)>>, st),
            LAMBDA q : Ret(RMin(ROne, RMul(q.ret, teamMovesLeft)), q.st))
  ELSE Ret(ROne, st)

\* Lines 422-453.
MileageCompletion(team, teamMovesLeft, remedyCoeff, goCoeff, st) ==
  Bind(ValidMileageCards(1000 - team.mileage), LAMBDA validMileageCards :
    Bind(percentOfCardsRemaining(validMileageCards, st), LAMBDA v :
      Bind(UnseenMileage(st.cardsUnseen, validMileageCards, 1),
           LAMBDA unseenTotalMileage :
        IF unseenTotalMileage < 1000 - team.mileage THEN Ret(RZero, v.st)
        ELSE Ret(RMin(ROne,
                      RMul(RMul(RMul(RMul(v.ret,
                                          Rat(unseenTotalMileage,
                                              1000 - team.mileage)),
                                     teamMovesLeft),
                                remedyCoeff),
                           goCoeff)),
                 v.st))))

\* Lines 402-453: the estimate by card counting.
CardCountingCompletion(team, st) ==
  Bind(deckExhaustionTurnsLeft(st), LAMBDA t :
    Bind(RMul(t.ret, RInt(Len(team.playerNumbers))), LAMBDA teamMovesLeft :
      Bind(GoCoeff(team, teamMovesLeft, t.st), LAMBDA g :
        Bind(RemedyCoeff(team, teamMovesLeft, g.st), LAMBDA r :
          IF g.ret = RZero \/ r.ret = RZero THEN Ret(RZero, r.st)
          ELSE MileageCompletion(team, teamMovesLeft, r.ret, g.ret, r.st)))))

\* chanceTeamWillCompleteTrip(team), lines 387-453.
chanceTeamWillCompleteTripBody(team, st) ==
  Bind(useMonteCarloSimulation(st), LAMBDA u :
    IF u.ret THEN MonteCarloCompletion(team, u.st)
    ELSE CardCountingCompletion(team, u.st))

chanceTeamWillCompleteTrip(team, st) ==
  cacheComputationForTurn("chanceTeamWillCompleteTrip", <<team.number>>,
                          chanceTeamWillCompleteTripBody(team, st),
                          st)

\* interestingRemedyDiscardsByPlayer is a defaultdict: a player never
\* reported reads as all zeros.
RemedyDiscards(d, player, remedy) ==
  IF player \in DOMAIN d THEN d[player][remedy] ELSE 0

RECURSIVE TeamRemedyDiscards(_, _, _, _)
TeamRemedyDiscards(d, players, remedy, i) ==
  IF i > Len(players) THEN 0
  ELSE RemedyDiscards(d, players[i], remedy)
         + TeamRemedyDiscards(d, players, remedy, i + 1)

RECURSIVE Boosted(_, _)
Boosted(odds, n) ==
  IF n = 0 THEN odds ELSE Boosted(RMul(odds, REMEDY_DISCARD_BOOST), n - 1)

\* Lines 138-155: the odds by the unseen cards and the team's discards.
ProtectionOddsByCount(team, attack, st) ==
  Bind(percentOfCardsRemaining(
         <<attackToSafety(attack), attackToRemedy(attack)>>, st),
       LAMBDA q :
    Ret(Boosted(q.ret,
                TeamRemedyDiscards(st.discards, team.playerNumbers,
                                   attackToRemedy(attack), 1)),
        q.st))

\* The odds with no look at the safeties the team has played.
chanceOpponentHasProtectionUnchecked(team, attack, st) ==
  ProtectionOddsByCount(team, attack, st)

\* chanceOpponentHasProtection(team, attack), lines 127-155.
chanceOpponentHasProtectionBody(team, attack, st) ==
  IF attackToSafety(attack) \in SeqToSet(team.safeties) THEN Ret(ROne, st)
  ELSE ProtectionOddsByCount(team, attack, st)

chanceOpponentHasProtection(team, attack, st) ==
  cacheComputationForTurn(
    "chanceOpponentHasProtection", <<team.number, attack>>,
    chanceOpponentHasProtectionBody(team, attack, st), st)

-----------------------------------------------------------------------------
(* The valuation: mileageCardValue, cardValue, moveValue.                  *)

\* mileageCardValue(card), lines 254-271.
mileageCardValueBody(card, st) ==
  Bind(valueOfPoints(400 + 200, st.gs.us, st), LAMBDA v :
    Ret(RMul(Rat(cardToMileage(card), 1000 - st.gs.us.mileage), v.ret),
        v.st))

mileageCardValue(card, st) ==
  cacheComputationForTurn("mileageCardValue", <<card>>,
                          mileageCardValueBody(card, st), st)

\* A coefficient that rises with the number of equal cards.
DupeCoefficientRising(numDuplicates) ==
  RAdd(ROne, RDiv(RSub(ROne, Rat(1, numDuplicates)),
                  RInt(DUPE_PENALTY_FACTOR)))

\* Lines 303-305: the coefficient for numDuplicates equal cards.
DupeCoefficient(numDuplicates) ==
  RSub(ROne, RDiv(RSub(ROne, Rat(1, numDuplicates)),
                  RInt(DUPE_PENALTY_FACTOR)))

\* list.index: the first position holding the card.
IndexOf(cards, card) ==
  CHOOSE i \in DOMAIN cards :
    cards[i] = card /\ \A j \in 1..(i - 1) : cards[j] # card

\* A valuation that holds every 25 in reserve, whatever its position.
MileageCardWorthAllReserved(card, cardIdx, cards, dupeCoefficient, st) ==
  IF cardToMileage(card) > 1000 - st.gs.us.mileage THEN Ret(RZero, st)
  ELSE IF cardToMileage(card) = 200 /\ st.gs.us.twoHundredsPlayed >= 2
  THEN Ret(RZero, st)
  ELSE IF cardToMileage(card) = 25
  THEN Ret(dupeCoefficient, st)
  ELSE Bind(mileageCardValue(card, st), LAMBDA v :
         Ret(RMul(v.ret, dupeCoefficient), v.st))

\* Lines 308-319 of cardValue: a mileage card.
MileageCardWorth(card, cardIdx, cards, dupeCoefficient, st) ==
  IF cardToMileage(card) > 1000 - st.gs.us.mileage THEN Ret(RZero, st)
  ELSE IF cardToMileage(card) = 200 /\ st.gs.us.twoHundredsPlayed >= 2
  THEN Ret(RZero, st)
  ELSE IF cardToMileage(card) = 25 /\ IndexOf(cards, card) = cardIdx
  THEN Ret(dupeCoefficient, st)
  ELSE Bind(mileageCardValue(card, st), LAMBDA v :
         Ret(RMul(v.ret, dupeCoefficient), v.st))

\* Lines 323-329: the attacks the remedy could be needed against.
RelevantAttacks(card, us, cards) ==
  SelectSeq(IF card = REMEDY_GO THEN ATTACKS ELSE <<remedyToAttack(card)>>,
            LAMBDA c : attackToSafety(c) \notin
                         SeqToSet(us.safeties) \cup SeqToSet(cards))

\* Lines 340-343: this is the one copy of a remedy we know we need.
RemedyNeeded(card, cardIdx, cards, us) ==
  /\ IndexOf(cards, card) = cardIdx
  /\ \/ ~us.moving /\ card = REMEDY_GO
     \/ us.speedLimit /\ card = REMEDY_END_OF_LIMIT
     \/ us.needRemedy # NONE /\ card = us.needRemedy

\* Lines 347-348.
AttackOnUsOdds(card, cards, st) ==
  Bind(percentOfCardsRemaining(RelevantAttacks(card, st.gs.us, cards), st),
       LAMBDA q :
    Bind(expectedTurnsLeft(q.st), LAMBDA t :
      Ret(RDiv(RMul(q.ret, t.ret), RInt(Len(st.gs.opponents) + 1)), t.st)))

\* Lines 323-356 of cardValue: a remedy.
RemedyCardWorth(card, cardIdx, cards, dupeCoefficient, st) ==
  Bind(expectedTurnPoints(st.gs.us, st), LAMBDA p :
    Bind(valueOfPoints(p.ret, st.gs.us, p.st), LAMBDA v :
      Bind(IF RemedyNeeded(card, cardIdx, cards, st.gs.us)
           THEN Ret(ROne, v.st)
           ELSE AttackOnUsOdds(card, cards, v.st),
           LAMBDA o :
        Ret(RMul(RMul(v.ret, o.ret), dupeCoefficient), o.st))))

\* Lines 367-370: the value of the attack against one opponent.
AttackValue(card, target, st) ==
  Bind(chanceOpponentHasProtection(target, card, st), LAMBDA a :
    Bind(percentOfCardsRemaining(
           <<attackToSafety(card), attackToRemedy(card)>>, a.st), LAMBDA b :
      Bind(expectedTurnPoints(target, b.st), LAMBDA c :
        Bind(valueOfPoints(c.ret, target, c.st), LAMBDA d :
          Ret(RMul(RMul(RSub(ROne, a.ret), RSub(ROne, b.ret)), d.ret),
              d.st)))))

\* Lines 366-371 of cardValue: the sum over the opponents from the i-th on.
RECURSIVE AttackValues(_, _, _)
AttackValues(card, i, st) ==
  IF i > Len(st.gs.opponents) THEN Ret(RZero, st)
  ELSE Bind(AttackValue(card, st.gs.opponents[i], st), LAMBDA a :
         Bind(AttackValues(card, i + 1, a.st), LAMBDA rest :
           Ret(RAdd(a.ret, rest.ret), rest.st)))

\* Lines 362-371 of cardValue: an attack.
AttackCardWorth(card, dupeCoefficient, st) ==
  Bind(AttackValues(card, 1, st), LAMBDA s :
    Ret(RMul(RDiv(s.ret, RInt(Len(st.gs.opponents))), dupeCoefficient),
        s.st))

\* Lines 307-373: the value by the type of the card.
CardWorth(card, cardIdx, cards, dupeCoefficient, st) ==
  CASE cardToType(card) = MILEAGE ->
         MileageCardWorth(card, cardIdx, cards, dupeCoefficient, st)
    [] cardToType(card) = REMEDY ->
         RemedyCardWorth(card, cardIdx, cards, dupeCoefficient, st)
    [] cardToType(card) = SAFETY -> Ret(dupeCoefficient, st)
    [] cardToType(card) = ATTACK ->
         AttackCardWorth(card, dupeCoefficient, st)

\* cardValue(card, cardIdx, cards), lines 282-373.
cardValueBody(card, cardIdx, cards, st) ==
  CardWorth(card, cardIdx, cards,
            DupeCoefficient(Cardinality({i \in DOMAIN cards :
                                           cards[i] = card})),
            st)

cardValue(card, cardIdx, cards, st) ==
  cacheComputationForTurn(
    "cardValue", <<card, cardIdx, cards>>,
    cardValueBody(card, cardIdx, cards, st), st)

\* Line 207: the comprehension's variable is named card as well, so its
\* filter compares each element with itself.
SameCards(discardCards) ==
  {i \in DOMAIN discardCards : discardCards[i] = discardCards[i]}

\* Lines 200-211 of moveValue: playing a mileage card.
PlayMileageValue(card, discardCards, st) ==
  Bind(mileageCardValue(card, st), LAMBDA v :
    Ret(IF cardToMileage(card) = st.gs.target - st.gs.us.mileage THEN ROne
        ELSE IF cardToMileage(card) = 25
                  /\ Cardinality(SameCards(discardCards)) < 2
        THEN RZero
        ELSE v.ret,
        v.st))

\* Lines 222-231: the target is under a speed limit, or needs a remedy
\* other than go.
AttackPointless(card, target) ==
  IF card = ATTACK_SPEED_LIMIT THEN target.speedLimit
  ELSE target.needRemedy # NONE /\ target.needRemedy # REMEDY_GO

\* Lines 235-240.
AttackQualityModifier(card) ==
  IF card = ATTACK_STOP THEN ATTACK_QUALITY_MOD_STOP
  ELSE IF card = ATTACK_SPEED_LIMIT THEN ATTACK_QUALITY_MOD_LIMIT
  ELSE ROne

\* Lines 243-246.
AttackProduct(card, target, st) ==
  Bind(chanceOpponentHasProtection(target, card, st), LAMBDA a :
    Bind(chanceTeamWillWin(target, a.st), LAMBDA b :
      Bind(chanceTeamWillCompleteTrip(target, b.st), LAMBDA c :
        Ret(RMul(RMul(RMul(RSub(ROne, a.ret), b.ret), c.ret),
                 AttackQualityModifier(card)),
            c.st))))

\* Lines 220-246 of moveValue: playing an attack.
PlayAttackValue(move, st) ==
  IF AttackPointless(move.card, teamNumberToTeam(st.gs, move.target))
  THEN Ret(RZero, st)
  ELSE AttackProduct(move.card, teamNumberToTeam(st.gs, move.target), st)

\* moveValue(move, discardIdx, discardCards), lines 181-246.
moveValueBody(move, discardIdx, discardCards, st) ==
  IF move.type = DISCARD
  THEN Bind(cardValue(move.card, discardIdx, discardCards, st), LAMBDA v :
         Ret(RMul(RSub(ROne, v.ret), DISCARD_MOVE_VALUE_PENALTY), v.st))
  ELSE CASE cardToType(move.card) = MILEAGE ->
              PlayMileageValue(move.card, discardCards, st)
         [] cardToType(move.card) = REMEDY ->
              Ret(IF move.card = REMEDY_END_OF_LIMIT /\ ~st.gs.us.speedLimit
                  THEN RZero ELSE ROne, st)
         [] cardToType(move.card) = SAFETY -> Ret(SAFETY_HORDE_FACTOR, st)
         [] cardToType(move.card) = ATTACK -> PlayAttackValue(move, st)

moveValue(move, discardIdx, discardCards, st) ==
  cacheComputationForTurn(
    "moveValue", <<move, discardIdx, discardCards>>,
    moveValueBody(move, discardIdx, discardCards, st), st)

-----------------------------------------------------------------------------
(* makeMove, lines 158-178.                                                *)

\* resetTurnCache, lines 77-78.
resetTurnCache == EmptyCache

\* Lines 163-166.
DiscardCards(moves) ==
  [i \in DOMAIN moves |->
     IF moves[i].type = DISCARD THEN moves[i].card ELSE NONE]

\* Lines 167-169: the values of the moves from the i-th on, in order.  The
\* dict is keyed by the move objects, which are distinct objects: it is
\* kept here by their position in validMoves.
RECURSIVE EvaluateMoves(_, _, _, _)
EvaluateMoves(moves, discardCards, i, st) ==
  IF i > Len(moves) THEN Ret(<<>>, st)
  ELSE Bind(moveValue(moves[i], i, discardCards, st), LAMBDA v :
         Bind(EvaluateMoves(moves, discardCards, i + 1, v.st), LAMBDA rest :
           Ret(<<v.ret>> \o rest.ret, rest.st)))

\* The place of the i-th value when the highest comes first and equal
\* values keep their order.
Rank(values, i) ==
  1 + Cardinality({j \in DOMAIN values :
        \/ RLt(values[i], values[j])
        \/ values[j] = values[i] /\ j < i})

\* A sort that leaves the list as it was.
SortOrderUnsorted(values) == [r \in DOMAIN values |-> r]

\* Lines 171-172: list.sort(key=..., reverse=True) is stable; the result
\* lists, for each place, the position the move held before.
SortOrder(values) ==
  [r \in DOMAIN values |-> CHOOSE i \in DOMAIN values : Rank(values, i) = r]

\* Lines 171-178: the list sorted in place, and its head returned.
Decision(moves, order, v) ==
  [ret |-> moves[order[1]], values |-> v.ret, order |-> order,
   moves |-> [r \in DOMAIN moves |-> moves[order[r]]],
   st |-> [v.st EXCEPT !.gs = NONE]]

\* makeMove(gameState) on the object st: the move returned, the dict of
\* values, the order validMoves is left in, and the object afterwards.
makeMove(gs, st) ==
  Bind(EvaluateMoves(gs.validMoves, DiscardCards(gs.validMoves), 1,
                     [st EXCEPT !.turnCache = resetTurnCache, !.gs = gs]),
       LAMBDA v : Decision(gs.validMoves, SortOrder(v.ret), v))

-----------------------------------------------------------------------------
(* The calls of the rule engine: makeMove on a snapshot, and the forecast  *)
(* asked directly.                                                         *)

\* The orders a shuffle can leave the unseen cards in: the sequences that
\* hold each card as often as cardsUnseen counts it (lines 518-522).
Shuffles(cu) ==
  LET held == {c \in AllCards : cu[c] > 0}
      n == SumOver([c \in held |-> cu[c]], held)
  IN {d \in [1..n -> held] :
        \A c \in held : Cardinality({i \in 1..n : d[i] = c}) = cu[c]}

\* The orders the shuffles of one call yield, for the playouts of two
\* simulations.
Draws(cu) == [1..(2 * NumPlayouts) -> Shuffles(cu)]

\* No move, and no answers.
NoMove == Move(NONE, NONE, -1)

NoForecast == [odds |-> RZero, again |-> RZero, turns |-> RZero]

\* makeMove is given a fresh copy of the snapshot; rnd are the orders its
\* shuffles yield.  The results of the call before are dropped.
MakeMove(rnd) ==
  \E r \in {makeMove(snapshotIn,
                     Self(turnCache, gameState, cardsUnseen, numCardsUnseen,
                          interestingRemedyDiscardsByPlayer, rnd))} :
     /\ turnCache' = r.st.turnCache
     /\ gameState' = r.st.gs
     /\ snapshot' = [snapshotIn EXCEPT !.validMoves = r.moves]
     /\ returned' = r.ret
     /\ moveValues' = r.values
     /\ mcRuns' = r.st.mcRuns
     /\ lastCall' = "makeMove"
     /\ queried' = NoForecast
     /\ UNCHANGED <<cardsUnseen, numCardsUnseen,
                    interestingRemedyDiscardsByPlayer, history, snapshotIn>>

\* The forecast of the decider's own team: its completion odds asked
\* twice, then the turns left.
Forecast(st) ==
  Bind(chanceTeamWillCompleteTrip(st.gs.us, st), LAMBDA a :
    Bind(chanceTeamWillCompleteTrip(st.gs.us, a.st), LAMBDA b :
      Bind(expectedTurnsLeft(b.st), LAMBDA c :
        [odds |-> a.ret, again |-> b.ret, turns |-> c.ret, st |-> c.st])))

\* chanceTeamWillCompleteTrip(us) and expectedTurnsLeft() called on the
\* object within one turn: the turn cache reset and gameState set to the
\* snapshot, as makeMove does before it evaluates a move.
ForecastQuery(rnd) ==
  \E r \in {Forecast(Self(resetTurnCache, snapshotIn, cardsUnseen,
                          numCardsUnseen, interestingRemedyDiscardsByPlayer,
                          rnd))} :
     /\ turnCache' = r.st.turnCache
     /\ queried' = [odds |-> r.odds, again |-> r.again, turns |-> r.turns]
     /\ mcRuns' = r.st.mcRuns
     /\ lastCall' = "forecast"
     /\ snapshot' = snapshotIn
     /\ returned' = NoMove
     /\ moveValues' = <<>>
     /\ UNCHANGED <<cardsUnseen, numCardsUnseen,
                    interestingRemedyDiscardsByPlayer, history, snapshotIn,
                    gameState>>

Team(number, players, mileage, moving, needRemedy, safeties, totalScore) ==
  [number |-> number, playerNumbers |-> players, mileage |-> mileage,
   moving |-> moving, needRemedy |-> needRemedy, speedLimit |-> FALSE,
   twoHundredsPlayed |-> 0, safeties |-> safeties, totalScore |-> totalScore]

GameState(us, opponents, validMoves, cardsLeft) ==
  [us |-> us, opponents |-> opponents, validMoves |-> validMoves,
   hand |-> <<>>, target |-> 1000, cardsLeft |-> cardsLeft]

\* The unseen counts late in a hand: the cards of d are unseen, all other
\* cards have been observed.
Unseen(d) == [c \in AllCards |-> IF c \in DOMAIN d THEN d[c] ELSE 0]

\* The observation calls between two decisions.
MaxObserved == 1

\* The decider's team.
Decider == Team(0, <<0>>, 500, TRUE, NONE, <<>>, 0)

\* The first opponent.
FirstOpponents ==
  {Team(1, <<1>>, 200, FALSE, REMEDY_GO, <<>>, 0),
   Team(1, <<1>>, 200, TRUE, NONE, <<SAFETY_EXTRA_TANK>>, 1000),
   Team(1, <<1>>, 800, TRUE, REMEDY_GASOLINE, <<>>, 0)}

\* The opponents: one team, or two.
OpponentLists ==
  {<<o>> : o \in FirstOpponents}
    \cup {<<Team(1, <<1>>, 200, TRUE, NONE, <<SAFETY_EXTRA_TANK>>, 1000),
            Team(2, <<2>>, 200, TRUE, NONE, <<>>, 0)>>}

\* The moves the rule engine offers.
MovePool(opponents) ==
  {Move(DISCARD, MILEAGE_25, -1), Move(DISCARD, REMEDY_GASOLINE, -1),
   Move(DISCARD, ATTACK_OUT_OF_GAS, -1), Move(PLAY, MILEAGE_25, -1),
   Move(PLAY, SAFETY_RIGHT_OF_WAY, -1), Move(PLAY, ATTACK_STOP, 1)}
    \cup {Move(PLAY, ATTACK_OUT_OF_GAS, opponents[i].number) :
            i \in DOMAIN opponents}

\* The moves offered second.
SecondMoves(opponents) ==
  {Move(DISCARD, MILEAGE_25, -1), Move(PLAY, MILEAGE_25, -1),
   Move(PLAY, ATTACK_OUT_OF_GAS, opponents[Len(opponents)].number)}

\* The lists of valid moves: one move, or two.
MoveLists(opponents) ==
  {<<m>> : m \in MovePool(opponents)}
    \cup {<<m, n>> : m \in MovePool(opponents), n \in SecondMoves(opponents)}

\* Decisions in a game of two or three teams, with one card left to draw.
GameScenarios ==
  UNION
    {{[gs |-> GameState(Decider, opps, moves, 1), unseen |-> Unseen(d)] :
        d \in {(MILEAGE_200 :> 1) @@ (REMEDY_GO :> 1),
               (MILEAGE_200 :> 1) @@ (REMEDY_GASOLINE :> 1)},
        moves \in MoveLists(opps)} :
       opps \in OpponentLists}

\* One team of one player, moving and in need of no remedy, and unseen
\* distance cards that sum to what the team still needs.
TrivialScenarios ==
  {[gs |-> GameState(Team(0, <<0>>, 1000 - s.need, TRUE, NONE, <<>>, 0),
                     <<>>, <<Move(PLAY, s.play, -1)>>, s.cards),
    unseen |-> Unseen(s.deck)] :
     s \in {[need |-> 100, play |-> MILEAGE_100, cards |-> 1,
             deck |-> (MILEAGE_100 :> 1)],
            [need |-> 200, play |-> MILEAGE_100, cards |-> 2,
             deck |-> (MILEAGE_100 :> 2)],
            [need |-> 500, play |-> MILEAGE_200, cards |-> 3,
             deck |-> (MILEAGE_200 :> 2) @@ (MILEAGE_100 :> 1)],
            [need |-> 25, play |-> MILEAGE_25, cards |-> 1,
             deck |-> (MILEAGE_25 :> 1)]}}

\* One team of one player with ten cards left to draw, all of them unseen
\* and alike.
SoloScenarios ==
  {[gs |-> GameState(Decider, <<>>, moves, 10), unseen |-> Unseen(c :> 10)] :
     c \in {MILEAGE_100, REMEDY_GO},
     moves \in {<<Move(PLAY, MILEAGE_25, -1),
                  Move(DISCARD, REMEDY_GASOLINE, -1)>>,
                <<Move(DISCARD, MILEAGE_25, -1),
                  Move(DISCARD, MILEAGE_25, -1),
                  Move(PLAY, MILEAGE_100, -1)>>}}

\* The most copies of one card among the discard candidates.
MaxDupes == 3

\* One team of one player that may discard any of d 25s it holds.
DupeScenarios ==
  {[gs |-> GameState(Decider, <<>>,
                     [i \in 1..d |-> Move(DISCARD, MILEAGE_25, -1)], 10),
    unseen |-> Unseen(MILEAGE_100 :> 10)] : d \in 1..MaxDupes}

\* Three teams of one player with three cards left to draw: two 200s and
\* a go.  Both opponents are moving and stand at 200.
RaceScenarios ==
  {[gs |-> GameState(Decider,
                     <<Team(1, <<1>>, 200, TRUE, NONE, <<>>, 0),
                       Team(2, <<2>>, 200, TRUE, NONE, <<>>, 0)>>,
                     <<Move(DISCARD, MILEAGE_25, -1)>>, 3),
    unseen |-> Unseen((MILEAGE_200 :> 2) @@ (REMEDY_GO :> 1))]}

Scenarios ==
  GameScenarios \cup TrivialScenarios \cup SoloScenarios \cup DupeScenarios
    \cup RaceScenarios

\* The object late in a hand, and the snapshot the rule engine is about to
\* hand over.
InitDecide ==
  \E s \in Scenarios :
    /\ cardsUnseen = s.unseen
    /\ numCardsUnseen = SumOver(s.unseen, AllCards)
    /\ interestingRemedyDiscardsByPlayer = ResetDiscards
    /\ turnCache = EmptyCache
    /\ gameState = NONE
    /\ history = <<>>
    /\ snapshotIn = s.gs
    /\ snapshot = s.gs
    /\ returned = NoMove
    /\ moveValues = <<>>
    /\ mcRuns = 0
    /\ lastCall = "__init__"
    /\ queried = NoForecast

\* The rule engine reports a card that is still unseen.
NextDecide ==
  \/ \E rnd \in Draws(cardsUnseen) : MakeMove(rnd)
  \/ \E rnd \in Draws(cardsUnseen) : ForecastQuery(rnd)
  \/ /\ Len(history) < MaxObserved
     /\ cardsUnseen[REMEDY_GASOLINE] > 0
     /\ \/ cardDrawn(REMEDY_GASOLINE)
        \/ playerPlayed(1, Move(DISCARD, REMEDY_GASOLINE, -1))

SpecDecide == InitDecide /\ [][NextDecide]_vars

\* __init__
Init ==
  /\ cardsUnseen = ResetCardsUnseen
  /\ numCardsUnseen = ResetNumCardsUnseen
  /\ interestingRemedyDiscardsByPlayer = ResetDiscards
  /\ turnCache = EmptyCache
  /\ gameState = NONE
  /\ history = <<>>
  /\ snapshotIn = NONE
  /\ snapshot = NONE
  /\ returned = NoMove
  /\ moveValues = <<>>
  /\ mcRuns = 0
  /\ lastCall = "__init__"
  /\ queried = NoForecast

Next ==
  \/ \E card \in ObservedCards : cardDrawn(card)
  \/ \E player \in PlayerNumbers, type \in {PLAY, DISCARD},
        card \in ObservedCards :
       playerPlayed(player, Move(type, card, -1))
  \/ handEnded

Spec == Init /\ [][Next]_vars

-----------------------------------------------------------------------------
(* What the log of observation calls says.                                 *)

\* The position of the last handEnded in the log (0: none).
LastReset(h) ==
  LET R == {i \in DOMAIN h : h[i].op = "handEnded"}
  IN IF R = {} THEN 0 ELSE CHOOSE i \in R : \A j \in R : j <= i

\* The observations (cardDrawn or playerPlayed) of card since the last reset.
ObservationsSince(h, card) ==
  Cardinality({i \in (LastReset(h) + 1)..Len(h) : h[i].card = card})

IsPlayed(e, player, card) ==
  e.op = "playerPlayed" /\ e.player = player /\ e.card = card

\* The discards of remedy by player since that player last played it, or
\* since the last reset.
DiscardsSince(h, player, remedy) ==
  LET R == {i \in DOMAIN h :
              \/ h[i].op = "handEnded"
              \/ IsPlayed(h[i], player, remedy) /\ h[i].type # DISCARD}
      from == IF R = {} THEN 0 ELSE CHOOSE i \in R : \A j \in R : j <= i
  IN Cardinality({i \in (from + 1)..Len(h) :
                    IsPlayed(h[i], player, remedy) /\ h[i].type = DISCARD})

\* The log is one that play by the rules produces when every card event is
\* reported and player 0 is the decider: the decider plays only cards it
\* drew, and the cards it drew and those the others played are distinct
\* copies of the deck.
ConsistentReporting(h) ==
  \A card \in AllCards :
    LET since == (LastReset(h) + 1)..Len(h)
        drawn == Cardinality({i \in since :
                   h[i].op = "cardDrawn" /\ h[i].card = card})
        own == Cardinality({i \in since : IsPlayed(h[i], 0, card)})
        others == Cardinality({i \in since :
                    \E q \in PlayerNumbers \ {0} : IsPlayed(h[i], q, card)})
    IN own <= drawn /\ drawn + others <= DeckComposition[card]

\* The object as a method called now finds it.
CurrentSelf ==
  Self(turnCache, gameState, cardsUnseen, numCardsUnseen,
       interestingRemedyDiscardsByPlayer, <<>>)

\* The card tuples percentOfCardsRemaining is asked about.
QueriedCards ==
  {<<c>> : c \in ObservedCards}
    \cup {<<SAFETY_RIGHT_OF_WAY, REMEDY_GO>>,
          <<SAFETY_EXTRA_TANK, REMEDY_GASOLINE>>}

-----------------------------------------------------------------------------
(* Claims.                                                                 *)

\* C2: each unseen count is the deck's count less the observations of that
\* card since construction or the last handEnded, and numCardsUnseen is the
\* sum of the unseen counts.
CardCountMatchesObservations ==
  /\ \A card \in AllCards :
       cardsUnseen[card] =
         DeckComposition[card] - ObservationsSince(history, card)
  /\ numCardsUnseen = SumOver(cardsUnseen, AllCards)

\* C2 witness: after a handEnded, the same card was observed twice.
CardCountWitness ==
  /\ LastReset(history) = 2
  /\ ObservationsSince(history, REMEDY_GO) = 2
  /\ cardsUnseen[REMEDY_GO] = DeckComposition[REMEDY_GO] - 2

\* C3: with every card event reported (the decider's own cards when drawn
\* and again when played), no unseen count and no total is ever negative.
UnseenNeverNegative ==
  ConsistentReporting(history) =>
    /\ \A card \in AllCards : cardsUnseen[card] >= 0
    /\ numCardsUnseen >= 0

\* C4: the suspicion count of a player and a remedy other than go is the
\* number of that player's discards of it since the player last played it,
\* or since construction or the last handEnded.
SuspicionCountsDiscardsSincePlay ==
  \A player \in PlayerNumbers :
    \A remedy \in SeqToSet(REMEDIES) \ {REMEDY_GO} :
      interestingRemedyDiscardsByPlayer[player][remedy] =
        DiscardsSince(history, player, remedy)

\* C4 witness: a discard, then a play, then a discard of the same remedy by
\* the same player leaves the count at one.
SuspicionWitness ==
  /\ Len(history) >= 3
  /\ IsPlayed(history[1], 0, REMEDY_GASOLINE) /\ history[1].type = DISCARD
  /\ IsPlayed(history[2], 0, REMEDY_GASOLINE) /\ history[2].type = PLAY
  /\ IsPlayed(history[3], 0, REMEDY_GASOLINE) /\ history[3].type = DISCARD
  /\ interestingRemedyDiscardsByPlayer[0][REMEDY_GASOLINE] = 1

\* C5: percentOfCardsRemaining is the sum of the requested unseen counts by
\* max(numCardsUnseen, that sum, 1), lies within [0, 1], and is 0 when all
\* the requested counts are 0.
PercentWithinUnitInterval ==
  ConsistentReporting(history) =>
    \A cards \in QueriedCards :
      LET r == percentOfCardsRemaining(cards, CurrentSelf).ret
          sum == UnseenCount(cardsUnseen, cards, 1)
      IN /\ r = Rat(sum, Max2(Max2(numCardsUnseen, sum), 1))
         /\ RLe(RZero, r) /\ RLe(r, ROne)
         /\ (\A i \in DOMAIN cards : cardsUnseen[cards[i]] = 0) => r = RZero

-----------------------------------------------------------------------------
(* Claims about a decision.                                                *)

\* The object as a method called within the turn of snapshotIn finds it
\* before anything is memoized.
TurnSelf ==
  Self(EmptyCache, snapshotIn, cardsUnseen, numCardsUnseen,
       interestingRemedyDiscardsByPlayer, <<>>)

\* C1: makeMove returns an element of the validMoves list it was given, and
\* no element of the list has a strictly greater moveValue.
ReturnsBestValidMove ==
  lastCall = "makeMove" =>
    \E k \in DOMAIN snapshotIn.validMoves :
      /\ returned = snapshotIn.validMoves[k]
      /\ \A i \in DOMAIN moveValues : ~RLt(moveValues[k], moveValues[i])

\* C1 witness: the second of two moves is worth more than the first, and is
\* the one returned.
BestMoveWitness ==
  /\ lastCall = "makeMove"
  /\ Len(snapshotIn.validMoves) = 2
  /\ RLt(moveValues[1], moveValues[2])
  /\ returned = snapshotIn.validMoves[2]

\* The opponents and attacks such that the opponent has played the safety
\* against the attack.
ProtectedTargets ==
  {x \in SeqToSet(snapshotIn.opponents) \X SeqToSet(ATTACKS) :
     attackToSafety(x[2]) \in SeqToSet(x[1].safeties)}

\* C6: against a team that has played the matching safety,
\* chanceOpponentHasProtection is exactly 1 whatever the discards and the
\* unseen cards are, and the value of playing the attack against it is 0.
ProtectedTargetIsCertain ==
  /\ \A x \in ProtectedTargets :
       chanceOpponentHasProtection(x[1], x[2], TurnSelf).ret = ROne
  /\ lastCall = "makeMove" =>
       \A i \in DOMAIN snapshotIn.validMoves :
         LET move == snapshotIn.validMoves[i]
         IN (/\ move.type = PLAY
             /\ cardToType(move.card) = ATTACK
             /\ <<teamNumberToTeam(snapshotIn, move.target), move.card>>
                  \in ProtectedTargets)
              => moveValues[i] = RZero

\* C6 witness: the target has played Extra Tank and has discarded a
\* gasoline, its odds of winning are not 0, and Out of Gas played against
\* it is worth 0.
ProtectedTargetWitness ==
  /\ lastCall = "makeMove"
  /\ snapshotIn.validMoves[1] = Move(PLAY, ATTACK_OUT_OF_GAS, 1)
  /\ SAFETY_EXTRA_TANK \in SeqToSet(snapshotIn.opponents[1].safeties)
  /\ interestingRemedyDiscardsByPlayer[1][REMEDY_GASOLINE] = 1
  /\ turnCache["chanceTeamWillWin"][<<1>>] # RZero
  /\ turnCache["chanceOpponentHasProtection"][<<1, ATTACK_OUT_OF_GAS>>] = ROne
  /\ moveValues[1] = RZero

\* C7: when makeMove returns, turnCache holds no entry computed during the
\* decision.
CacheReleasedOnReturn ==
  lastCall = "makeMove" => turnCache = EmptyCache

\* The share of the memoized playouts in which the team's entry is 0.
MemoizedCompletion(teamNumber) ==
  LET results == turnCache["monteCarloMileageSimulation"][<<>>]
  IN Rat(Cardinality({k \in DOMAIN results :
                        results[k][teamNumber + 2] = 0}),
         Len(results))

\* C8: within one decision a second call with the same arguments returns
\* what the first returned: the simulation runs at most once, the odds of
\* every team come from its one set of playouts, and the memoized odds are
\* those the tracker state gives.
SimulatedOncePerDecision ==
  /\ mcRuns <= 1
  /\ lastCall = "forecast" => queried.again = queried.odds
  /\ lastCall = "makeMove" =>
       /\ \A key \in DOMAIN turnCache["chanceTeamWillCompleteTrip"] :
            turnCache["useMonteCarloSimulation"][<<>>] =>
              turnCache["chanceTeamWillCompleteTrip"][key]
                = MemoizedCompletion(key[1])
       /\ \A key \in DOMAIN turnCache["percentOfCardsRemaining"] :
            turnCache["percentOfCardsRemaining"][key]
              = percentOfCardsRemainingBody(key, TurnSelf).ret
       /\ \A key \in DOMAIN turnCache["chanceOpponentHasProtection"] :
            turnCache["chanceOpponentHasProtection"][key]
              = chanceOpponentHasProtectionBody(
                  teamNumberToTeam(snapshotIn, key[1]), key[2], TurnSelf).ret

\* C8 witness: one decision asked the odds of two teams, the simulation ran
\* once, and its two playouts ended differently for the first of them.
SimulatedOnceWitness ==
  /\ lastCall = "makeMove"
  /\ mcRuns = 1
  /\ DOMAIN turnCache["chanceTeamWillCompleteTrip"] = {<<1>>, <<2>>}
  /\ turnCache["chanceTeamWillCompleteTrip"][<<1>>] = <<1, 2>>

\* C9: makeMove leaves the snapshot it is given as it was: validMoves with
\* its elements and their order, hand, own team and opponents.
SnapshotUnchanged ==
  lastCall = "makeMove" => snapshot = snapshotIn

\* One team of one player, moving and in need of no remedy, and the unseen
\* cards are distance cards that sum to what the team still needs.
TrivialTrip(gs, cu) ==
  /\ gs.opponents = <<>>
  /\ Len(gs.us.playerNumbers) = 1
  /\ gs.us.moving /\ gs.us.needRemedy = NONE
  /\ \A c \in AllCards : cu[c] > 0 => cardToType(c) = MILEAGE
  /\ UnseenMileage(cu, MILEAGE_CARDS, 1) = gs.target - gs.us.mileage

\* C10: the Monte Carlo completion odds are within [0, 1]; in the trivial
\* trip they are 1 and the expected turns are the number of cards needed,
\* whatever the team's mileage is.
TrivialTripCompletes ==
  (lastCall = "forecast" /\ turnCache["useMonteCarloSimulation"][<<>>]) =>
    /\ RLe(RZero, queried.odds) /\ RLe(queried.odds, ROne)
    /\ TrivialTrip(snapshotIn, cardsUnseen) =>
         /\ queried.odds = ROne
         /\ queried.turns = RInt(SumOver(cardsUnseen, AllCards))

\* The positions of validMoves that discard the card.
DiscardPositions(moves, card) ==
  {i \in DOMAIN moves : moves[i].type = DISCARD /\ moves[i].card = card}

\* makeMove has valued a snapshot that offers to discard exactly two 25s,
\* and 25 does not exceed the distance that remains.
TwoSpare25s ==
  /\ lastCall = "makeMove"
  /\ Cardinality(DiscardPositions(snapshotIn.validMoves, MILEAGE_25)) = 2
  /\ 25 <= 1000 - snapshotIn.us.mileage

\* The generic mileage valuation of a 25 in the turn of snapshotIn.
Generic25Value == mileageCardValue(MILEAGE_25, TurnSelf).ret

\* What the decision memoized as cardValue of the 25 discarded at position i.
Spare25Value(i) ==
  turnCache["cardValue"][<<MILEAGE_25, i, DiscardCards(snapshotIn.validMoves)>>]

\* C11 as stated: of two 25s among the discard candidates, cardValue gives
\* exactly one the value 1.0 and the other the generic mileage valuation.
ReservedOneOfTwoAtFullValue ==
  TwoSpare25s =>
    \E i \in DiscardPositions(snapshotIn.validMoves, MILEAGE_25) :
      /\ Spare25Value(i) = ROne
      /\ \A j \in DiscardPositions(snapshotIn.validMoves, MILEAGE_25) \ {i} :
           Spare25Value(j) = Generic25Value

\* C11 amended: of two 25s among the discard candidates, cardValue holds
\* the first in reserve, at 1.0 times the duplicate coefficient of two
\* copies, and gives the second the generic mileage valuation times the
\* same coefficient; never both in reserve, and never neither.
ReservedOneOfTwo ==
  TwoSpare25s =>
    \E i, j \in DiscardPositions(snapshotIn.validMoves, MILEAGE_25) :
      /\ i < j
      /\ Spare25Value(i) = RMul(ROne, DupeCoefficient(2))
      /\ Spare25Value(j) = RMul(Generic25Value, DupeCoefficient(2))

\* C11 witness: a decision over two discards of a 25 behind another move
\* valued them differently, the first at 5/6.
ReservedOneOfTwoWitness ==
  /\ TwoSpare25s
  /\ DiscardPositions(snapshotIn.validMoves, MILEAGE_25) = {1, 2}
  /\ Len(snapshotIn.validMoves) = 3
  /\ Spare25Value(1) = <<5, 6>>
  /\ Spare25Value(2) # Spare25Value(1)

\* makeMove has valued a snapshot whose moves all discard a 25.
OnlySpare25s ==
  /\ lastCall = "makeMove"
  /\ DiscardPositions(snapshotIn.validMoves, MILEAGE_25)
       = DOMAIN snapshotIn.validMoves

\* C12 as stated: the duplicate coefficient cardValue computes, which it
\* returns for the 25 held in reserve among d 25s, is 1.0 when d = 1 and
\* does not decrease as d increases from 1.
DupeCoefficientNeverFalls ==
  OnlySpare25s =>
    /\ Spare25Value(1) = DupeCoefficient(Len(snapshotIn.validMoves))
    /\ DupeCoefficient(1) = ROne
    /\ \A d \in 1..(Len(snapshotIn.validMoves) - 1) :
         RLe(DupeCoefficient(d), DupeCoefficient(d + 1))

\* C12 amended: the duplicate coefficient cardValue computes, which it
\* returns for the 25 held in reserve among d 25s, is 1.0 when d = 1 and
\* does not increase as d increases from 1.
DupeCoefficientNeverRises ==
  OnlySpare25s =>
    /\ Spare25Value(1) = DupeCoefficient(Len(snapshotIn.validMoves))
    /\ DupeCoefficient(1) = ROne
    /\ \A d \in 1..(Len(snapshotIn.validMoves) - 1) :
         RLe(DupeCoefficient(d + 1), DupeCoefficient(d))

\* C12 witness: among three 25s the one in reserve is worth 7/9, which is
\* less than the 5/6 of two copies.
DupeCoefficientWitness ==
  /\ OnlySpare25s
  /\ Len(snapshotIn.validMoves) = 3
  /\ Spare25Value(1) = <<7, 9>>
  /\ RLt(Spare25Value(1), DupeCoefficient(2))

\* The playouts the simulation can run in the turn of snapshotIn, as they
\* end: one for each order the shuffle can leave the unseen cards in.
PlayoutsOfTurn ==
  {WhileDeck(PlayoutStart(snapshotIn, deck), AllTeams(snapshotIn)) :
     deck \in Shuffles(cardsUnseen)}

\* C13: a playout ends as soon as a dealt card leaves a team with needed
\* distance 0, moving and in need of no remedy: no card is dealt after it,
\* and at most one team reports the remaining distance 0.
PlayoutEndsAtCompletion ==
  (lastCall \in {"makeMove", "forecast"}
     /\ <<>> \in DOMAIN turnCache["monteCarloMileageSimulation"]) =>
    /\ \A p \in PlayoutsOfTurn :
         p.completedAt # -1 => p.dealt = p.completedAt
    /\ LET results == turnCache["monteCarloMileageSimulation"][<<>>]
       IN \A k \in DOMAIN results :
            Cardinality({j \in 2..Len(results[k]) : results[k][j] = 0}) <= 1

\* The positions of validMoves that play a 25 which does not complete the
\* trip.
Played25s ==
  {i \in DOMAIN snapshotIn.validMoves :
     /\ snapshotIn.validMoves[i].type = PLAY
     /\ snapshotIn.validMoves[i].card = MILEAGE_25
     /\ 25 # snapshotIn.target - snapshotIn.us.mileage}

\* C14: playing a 25 that does not complete the trip is worth 0.0 when the
\* discard candidates of the decision hold no second 25, however many
\* valid moves there are, and the generic mileage valuation when they do.
Sole25IsPreserved ==
  lastCall = "makeMove" =>
    \A i \in Played25s :
      IF Cardinality(DiscardPositions(snapshotIn.validMoves, MILEAGE_25)) < 2
      THEN moveValues[i] = RZero
      ELSE moveValues[i] = Generic25Value

=============================================================================
